---- MODULE Spec2Model ----
(***************************************************************************)
(* Model of pipecatcloud.pcc_helper.PipecatHelper: construction and the    *)
(* start_agent coroutine, with the _API collaborator as a spy whose        *)
(* answers are chosen nondeterministically.                                *)
(*                                                                         *)
(* A start_agent invocation is a coroutine with two await points, so it is *)
(* modelled as three steps: Call (lines 114-132, up to the suspension on   *)
(* the health check), HealthReturn (lines 132-146, up to the suspension on *)
(* the start request) and StartReturn (lines 140-161).  Invocations live   *)
(* in slots; the steps of different slots interleave freely.               *)
(***************************************************************************)
EXTENDS Integers, Sequences, FiniteSets, TLC

VARIABLES
    constructed,  \* whether a PipecatHelper instance exists
    token,        \* self.token
    org,          \* self.org
    ctor,         \* history: the last constructor call, its arguments and outcome
    inv,          \* per slot: the start_agent invocation running in it
    calls,        \* per slot: the remote calls the current invocation issued (the spy)
    memo,         \* history: the first completed invocation
    ncalls,       \* invocations begun so far
    quota         \* invocations allowed in this run

vars == <<constructed, token, org, ctor, inv, calls, memo, ncalls, quota>>

----------------------------------------------------------------------------
(* Bounds.                                                                 *)

MaxCalls == 3

----------------------------------------------------------------------------
(* Python values, tagged by type.                                          *)

NoneV == [t |-> "None"]

Str(s) == [t |-> "str", s |-> s]

Dict(f) == [t |-> "dict", items |-> f]

List(n) == [t |-> "list", len |-> n]

Bool(b) == [t |-> "bool", b |-> b]

\* Python truth value testing, as used by `if x:` and `not x`.
Truthy(v) ==
    CASE v.t = "None" -> FALSE
      [] v.t = "str"  -> v.s # ""
      [] v.t = "dict" -> DOMAIN v.items # {}
      [] v.t = "list" -> v.len > 0
      [] v.t = "bool" -> v.b

\* dict.get(key, default)
Get(d, key, default) ==
    IF key \in DOMAIN d.items THEN d.items[key] ELSE default

\* str(x) as an f-string formats it; only strings are formatted in this model.
Format(v) == v.s

----------------------------------------------------------------------------
(* json.loads, by its outcome on the texts of the model.                   *)

ValidJson == {"{}", "{\"k\": 1}"}

JsonTexts == {"", "{}", "{\"k\": 1}", "{oops"}

\* The JSONDecodeError diagnostic of a text that does not parse.
JsonDiagnostic(s) ==
    IF s = ""
    THEN "Expecting value: line 1 column 1 (char 0)"
    ELSE "Expecting property name enclosed in double quotes: line 1 column 2 (char 1)"

\* TRUE iff json.loads(s) raises JSONDecodeError.
JsonLoadsRaises(s) == s \notin ValidJson

----------------------------------------------------------------------------
(* Outcomes of a call, as the caller observes them.                        *)

Pending == [kind |-> "pending"]

Raise(msg) == [kind |-> "raise", exc |-> "ValueError", msg |-> msg]

Return(v) == [kind |-> "return", value |-> v]

Pass == [kind |-> "pass"]

----------------------------------------------------------------------------
(* Inputs.                                                                 *)

Tokens == {"", "tok"}

Orgs == {"", "org-1"}

AgentNames == {"", "agent-a", "agent-b"}

ApiKeys == {"", "pk_1"}

OptJson == {NoneV} \cup {Str(s) : s \in JsonTexts}

Args == [agent_name : AgentNames, api_key : ApiKeys, use_daily : BOOLEAN,
         data : OptJson, daily_properties : OptJson]

\* The inputs of the runs that keep a history or interleave two invocations.
ArgsSmall == [agent_name : AgentNames, api_key : ApiKeys, use_daily : BOOLEAN,
              data : {NoneV, Str("{oops")}, daily_properties : {NoneV, Str("{oops")}]

Errors == {Str("E404"), Str("E500")}

Room == "https://x.example/room"

RoomToken == "abc"

Absent == [t |-> "absent"]

\* What _API.agent may hand back: (data, error).
HealthData == {NoneV, Dict([k \in {} |-> NoneV]), Dict([ready |-> Bool(FALSE)]),
               Dict([ready |-> Bool(TRUE)]), Dict([name |-> Str("agent-a")])}

HealthAnswers ==
    [data : HealthData, error : {NoneV}]
        \cup [data : {NoneV, Dict([ready |-> Bool(TRUE)])}, error : {Str("E404")}]

\* A start result with the given dailyRoom and dailyToken entries (Absent: no key).
StartDict(r, t) ==
    Dict([k \in (IF r = Absent THEN {} ELSE {"dailyRoom"})
                 \cup (IF t = Absent THEN {} ELSE {"dailyToken"})
            |-> IF k = "dailyRoom" THEN r ELSE t])

StartDicts ==
    { StartDict(r, t) : r \in {Absent, Str(""), Str(Room)},
                        t \in {Absent, Str(""), Str(RoomToken)} }

\* What _API.start_agent may hand back: (data, error).
StartData == {NoneV, List(1)} \cup StartDicts

StartAnswers ==
    [data : StartData, error : {NoneV}]
        \cup [data : {NoneV}, error : Errors]
        \cup [data : {StartDict(Str(Room), Str(RoomToken))}, error : {Str("E500")}]

NoAnswer == [asked |-> FALSE]

Idle == [pc |-> "idle", n |-> 0, health |-> NoAnswer, start |-> NoAnswer,
         result |-> [kind |-> "pending"]]

Slots == {1}

ConcSlots == {1, 2}

NoMemo == [n |-> 0]

MemoOff == [n |-> -1]

----------------------------------------------------------------------------
(* The code, as functions of its inputs.                                   *)

\* PipecatHelper.__init__: the checks of token and org.
InitOutcome(t, o) ==
    IF t = "" THEN Raise("token is required")
    ELSE IF o = "" THEN Raise("org is required")
    ELSE Pass

\* Faulty variant: the api_key check is missing.
ValidateNoKeyCheck(a) ==
    IF a.agent_name = "" THEN Raise("agent_name is required")
    ELSE IF /\ a.use_daily
            /\ Truthy(a.daily_properties)
            /\ JsonLoadsRaises(a.daily_properties.s)
    THEN Raise("Invalid JSON format for daily_properties: "
                   \o JsonDiagnostic(a.daily_properties.s))
    ELSE IF Truthy(a.data) /\ JsonLoadsRaises(a.data.s)
    THEN Raise("Invalid JSON format for data: " \o JsonDiagnostic(a.data.s))
    ELSE Pass

\* Faulty variant: the payload is not parsed.
ValidateNoDataCheck(a) ==
    IF a.agent_name = "" THEN Raise("agent_name is required")
    ELSE IF a.api_key = "" THEN Raise("api_key is required")
    ELSE IF /\ a.use_daily
            /\ Truthy(a.daily_properties)
            /\ JsonLoadsRaises(a.daily_properties.s)
    THEN Raise("Invalid JSON format for daily_properties: "
                   \o JsonDiagnostic(a.daily_properties.s))
    ELSE Pass

\* start_agent, local validation: everything before the first remote call.
Validate(a) ==
    IF a.agent_name = "" THEN Raise("agent_name is required")
    ELSE IF a.api_key = "" THEN Raise("api_key is required")
    ELSE IF /\ a.use_daily
            /\ Truthy(a.daily_properties)
            /\ JsonLoadsRaises(a.daily_properties.s)
    THEN Raise("Invalid JSON format for daily_properties: "
                   \o JsonDiagnostic(a.daily_properties.s))
    ELSE IF Truthy(a.data) /\ JsonLoadsRaises(a.data.s)
    THEN Raise("Invalid JSON format for data: " \o JsonDiagnostic(a.data.s))
    ELSE Pass

\* self._api.agent(agent_name=agent_name, org=self.org)
HealthRequest(a, o) == [op |-> "agent", agent_name |-> a.agent_name, org |-> o]

\* Faulty variant: the readiness flag is not looked at.
CheckHealthNoReady(a, h) ==
    IF Truthy(h.error)
    THEN Raise("Error checking agent health: " \o Format(h.error))
    ELSE Pass

\* start_agent, what it makes of the health check's answer.
CheckHealth(a, h) ==
    IF Truthy(h.error)
    THEN Raise("Error checking agent health: " \o Format(h.error))
    ELSE IF \/ ~Truthy(h.data)
            \/ ~Truthy(Get(h.data, "ready", Bool(FALSE)))
    THEN Raise("Agent '" \o a.agent_name
                   \o "' does not exist or is not in a healthy state")
    ELSE Pass

\* self._api.start_agent(agent_name=..., api_key=..., use_daily=..., data=..., daily_properties=...)
StartRequest(a) ==
    [op |-> "start_agent", agent_name |-> a.agent_name, api_key |-> a.api_key,
     use_daily |-> a.use_daily, data |-> a.data,
     daily_properties |-> a.daily_properties]

NoDataMsg == "Start request succeeded but returned no data"

\* Faulty variant: the URL is composed with the wrong separator.
StartOutcomeAmp(a, s) ==
    IF Truthy(s.error)
    THEN Raise("Error starting agent: " \o Format(s.error))
    ELSE IF ~Truthy(s.data) THEN Raise(NoDataMsg)
    ELSE IF /\ a.use_daily
            /\ s.data.t = "dict"
            /\ Truthy(Get(s.data, "dailyRoom", NoneV))
            /\ Truthy(Get(s.data, "dailyToken", NoneV))
    THEN Return(Str(Format(Get(s.data, "dailyRoom", NoneV)) \o "&t="
                        \o Format(Get(s.data, "dailyToken", NoneV))))
    ELSE Raise(NoDataMsg)

\* Faulty variant: the URL is composed whether or not a Daily session was asked for.
StartOutcomeAnyMode(a, s) ==
    IF Truthy(s.error)
    THEN Raise("Error starting agent: " \o Format(s.error))
    ELSE IF ~Truthy(s.data) THEN Raise(NoDataMsg)
    ELSE IF /\ s.data.t = "dict"
            /\ Truthy(Get(s.data, "dailyRoom", NoneV))
            /\ Truthy(Get(s.data, "dailyToken", NoneV))
    THEN Return(Str(Format(Get(s.data, "dailyRoom", NoneV)) \o "?t="
                        \o Format(Get(s.data, "dailyToken", NoneV))))
    ELSE Raise(NoDataMsg)

\* start_agent, what it makes of the start request's answer.
StartOutcome(a, s) ==
    IF Truthy(s.error)
    THEN Raise("Error starting agent: " \o Format(s.error))
    ELSE IF ~Truthy(s.data) THEN Raise(NoDataMsg)
    ELSE IF /\ a.use_daily
            /\ s.data.t = "dict"
            /\ Truthy(Get(s.data, "dailyRoom", NoneV))
            /\ Truthy(Get(s.data, "dailyToken", NoneV))
    THEN Return(Str(Format(Get(s.data, "dailyRoom", NoneV)) \o "?t="
                        \o Format(Get(s.data, "dailyToken", NoneV))))
    ELSE Raise(NoDataMsg)

\* start_agent run without interruption on arguments a, the health check
\* answering h and the start request answering s (an answer is read only if the
\* call it answers is reached).
RunAlone(a, h, s) ==
    IF Validate(a) # Pass THEN Validate(a)
    ELSE IF CheckHealth(a, h) # Pass THEN CheckHealth(a, h)
    ELSE StartOutcome(a, s)

----------------------------------------------------------------------------
(* State machine.                                                          *)

\* The first invocation to complete is remembered (history only).
Remember(rec) ==
    IF memo.n = 0
    THEN [n |-> rec.n, args |-> rec.args, health |-> rec.health,
          start |-> rec.start, result |-> rec.result]
    ELSE memo

InitCommon ==
    /\ constructed = FALSE
    /\ token = ""
    /\ org = ""
    /\ ctor = [called |-> FALSE]
    /\ ncalls = 0

Init ==
    /\ InitCommon
    /\ inv = [i \in Slots |-> Idle]
    /\ calls = [i \in Slots |-> <<>>]
    /\ memo = MemoOff
    /\ quota = MaxCalls

\* Sequential reuse of one helper, the first completed invocation remembered.
InitReuse ==
    /\ InitCommon
    /\ inv = [i \in Slots |-> Idle]
    /\ calls = [i \in Slots |-> <<>>]
    /\ memo = NoMemo
    /\ quota = MaxCalls

\* Two invocations share one helper; nothing is remembered across them.
InitConc ==
    /\ InitCommon
    /\ inv = [i \in ConcSlots |-> Idle]
    /\ calls = [i \in ConcSlots |-> <<>>]
    /\ memo = MemoOff
    /\ quota = Cardinality(ConcSlots)

\* PipecatHelper(token=t, org=o)
Construct(t, o) ==
    /\ ~constructed
    /\ ctor' = [called |-> TRUE, token |-> t, org |-> o, result |-> InitOutcome(t, o)]
    /\ IF InitOutcome(t, o) = Pass
       THEN constructed' = TRUE /\ token' = t /\ org' = o
       ELSE UNCHANGED <<constructed, token, org>>
    /\ UNCHANGED <<inv, calls, memo, ncalls, quota>>

\* helper.start_agent(**a), run to its first suspension or to its end.
Call(i, a) ==
    /\ constructed
    /\ inv[i].pc \in {"idle", "done"}
    /\ ncalls < quota
    /\ ncalls' = ncalls + 1
    /\ LET v == Validate(a)
           rec == [pc |-> IF v = Pass THEN "await_health" ELSE "done",
                   n |-> ncalls + 1, args |-> a, health |-> NoAnswer,
                   start |-> NoAnswer,
                   result |-> IF v = Pass THEN Pending ELSE v]
       IN /\ inv' = [inv EXCEPT ![i] = rec]
          /\ calls' = [calls EXCEPT ![i] =
                          IF v = Pass THEN <<HealthRequest(a, org)>> ELSE <<>>]
          /\ memo' = IF v = Pass THEN memo ELSE Remember(rec)
    /\ UNCHANGED <<constructed, token, org, ctor, quota>>

\* Faulty variant: a health check that answers with an error is tried once more.
HealthReturnRetry(i, h) ==
    /\ inv[i].pc = "await_health"
    /\ LET retry == Truthy(h.error) /\ Len(calls[i]) = 1
           c == CheckHealth(inv[i].args, h)
           rec == [inv[i] EXCEPT !.health = h,
                                 !.pc = IF retry THEN "await_health"
                                        ELSE IF c = Pass THEN "await_start" ELSE "done",
                                 !.result = IF c = Pass \/ retry THEN Pending ELSE c]
       IN /\ inv' = [inv EXCEPT ![i] = rec]
          /\ calls' = [calls EXCEPT ![i] =
                          IF retry THEN Append(@, HealthRequest(inv[i].args, org))
                          ELSE IF c = Pass THEN Append(@, StartRequest(inv[i].args))
                          ELSE @]
          /\ memo' = IF c = Pass \/ retry THEN memo ELSE Remember(rec)
    /\ UNCHANGED <<constructed, token, org, ctor, ncalls, quota>>

\* Faulty variant: a failed health check clears the stored organization.
HealthReturnPoison(i, h) ==
    /\ inv[i].pc = "await_health"
    /\ LET c == CheckHealth(inv[i].args, h)
           rec == [inv[i] EXCEPT !.health = h,
                                 !.pc = IF c = Pass THEN "await_start" ELSE "done",
                                 !.result = IF c = Pass THEN Pending ELSE c]
       IN /\ inv' = [inv EXCEPT ![i] = rec]
          /\ calls' = [calls EXCEPT ![i] =
                          IF c = Pass THEN Append(@, StartRequest(inv[i].args)) ELSE @]
          /\ memo' = IF c = Pass THEN memo ELSE Remember(rec)
          /\ org' = IF c = Pass THEN org ELSE ""
    /\ UNCHANGED <<constructed, token, ctor, ncalls, quota>>

\* Faulty variant: the arguments of the start request are kept on the instance, where a
\* concurrent invocation overwrites them.
HealthReturnShared(i, h) ==
    /\ inv[i].pc = "await_health"
    /\ LET c == CheckHealth(inv[i].args, h)
           others == {j \in DOMAIN inv : j # i /\ inv[j].pc # "idle"}
           shared == IF others = {} THEN inv[i].args
                     ELSE inv[CHOOSE j \in others : TRUE].args
           rec == [inv[i] EXCEPT !.health = h,
                                 !.pc = IF c = Pass THEN "await_start" ELSE "done",
                                 !.result = IF c = Pass THEN Pending ELSE c]
       IN /\ inv' = [inv EXCEPT ![i] = rec]
          /\ calls' = [calls EXCEPT ![i] =
                          IF c = Pass THEN Append(@, StartRequest(shared)) ELSE @]
          /\ memo' = IF c = Pass THEN memo ELSE Remember(rec)
    /\ UNCHANGED <<constructed, token, org, ctor, ncalls, quota>>

\* The health check answers h; the invocation resumes to its next suspension or its end.
HealthReturn(i, h) ==
    /\ inv[i].pc = "await_health"
    /\ LET c == CheckHealth(inv[i].args, h)
           rec == [inv[i] EXCEPT !.health = h,
                                 !.pc = IF c = Pass THEN "await_start" ELSE "done",
                                 !.result = IF c = Pass THEN Pending ELSE c]
       IN /\ inv' = [inv EXCEPT ![i] = rec]
          /\ calls' = [calls EXCEPT ![i] =
                          IF c = Pass THEN Append(@, StartRequest(inv[i].args)) ELSE @]
          /\ memo' = IF c = Pass THEN memo ELSE Remember(rec)
    /\ UNCHANGED <<constructed, token, org, ctor, ncalls, quota>>

\* Faulty variant: a start request that answers with an error is tried once more.
StartReturnRetry(i, s) ==
    /\ inv[i].pc = "await_start"
    /\ LET retry == Truthy(s.error) /\ Len(calls[i]) = 2
           rec == [inv[i] EXCEPT !.start = s,
                                 !.pc = IF retry THEN "await_start" ELSE "done",
                                 !.result = IF retry THEN Pending
                                            ELSE StartOutcome(inv[i].args, s)]
       IN /\ inv' = [inv EXCEPT ![i] = rec]
          /\ calls' = [calls EXCEPT ![i] =
                          IF retry THEN Append(@, StartRequest(inv[i].args)) ELSE @]
          /\ memo' = IF retry THEN memo ELSE Remember(rec)
    /\ UNCHANGED <<constructed, token, org, ctor, ncalls, quota>>

\* The start request answers s; the invocation resumes and ends.
StartReturn(i, s) ==
    /\ inv[i].pc = "await_start"
    /\ LET rec == [inv[i] EXCEPT !.start = s, !.pc = "done",
                                 !.result = StartOutcome(inv[i].args, s)]
       IN /\ inv' = [inv EXCEPT ![i] = rec]
          /\ memo' = Remember(rec)
    /\ UNCHANGED <<constructed, token, org, ctor, calls, ncalls, quota>>

Next ==
    \/ \E t \in Tokens, o \in Orgs : Construct(t, o)
    \/ \E i \in DOMAIN inv, a \in Args : Call(i, a)
    \/ \E i \in DOMAIN inv, h \in HealthAnswers : HealthReturn(i, h)
    \/ \E i \in DOMAIN inv, s \in StartAnswers : StartReturn(i, s)

NextSmall ==
    \/ \E t \in Tokens, o \in Orgs : Construct(t, o)
    \/ \E i \in DOMAIN inv, a \in ArgsSmall : Call(i, a)
    \/ \E i \in DOMAIN inv, h \in HealthAnswers : HealthReturn(i, h)
    \/ \E i \in DOMAIN inv, s \in StartAnswers : StartReturn(i, s)

Spec == Init /\ [][Next]_vars

SpecReuse == InitReuse /\ [][NextSmall]_vars

SpecConc == InitConc /\ [][NextSmall]_vars

----------------------------------------------------------------------------
(* Vocabulary of the properties.                                           *)

Started(i) == inv[i].pc # "idle"

Done(i) == inv[i].pc = "done"

Issued(i, op) == \E k \in 1..Len(calls[i]) : calls[i][k].op = op

Count(i, op) == Cardinality({k \in 1..Len(calls[i]) : calls[i][k].op = op})

\* The health check has answered: no error, and a record whose ready flag is true.
HealthyAnswer(h) ==
    /\ h # NoAnswer
    /\ h.error = NoneV
    /\ h.data.t = "dict"
    /\ "ready" \in DOMAIN h.data.items
    /\ h.data.items["ready"] = Bool(TRUE)

\* The health check has answered with an error, no data, or readiness false or absent.
UnhealthyAnswer(h) == h # NoAnswer /\ ~HealthyAnswer(h)

\* The string is given and json.loads does not accept it.
PresentUnparseable(v) == v # NoneV /\ v.s \notin ValidJson

\* The string is given, not empty, and json.loads does not accept it.
NonEmptyUnparseable(v) == v # NoneV /\ v.s # "" /\ v.s \notin ValidJson

RequiredGiven(a) == a.agent_name # "" /\ a.api_key # ""

\* Valid inputs as the specification words them.
InputsValid(a) ==
    /\ RequiredGiven(a)
    /\ ~PresentUnparseable(a.data)
    /\ ~PresentUnparseable(a.daily_properties)

\* Inputs that pass the validation: empty optional strings count as not given,
\* and daily_properties is looked at only with use_daily.
InputsAccepted(a) ==
    /\ RequiredGiven(a)
    /\ ~NonEmptyUnparseable(a.data)
    /\ ~(a.use_daily /\ NonEmptyUnparseable(a.daily_properties))

\* The start request has answered without error, with a record holding both fields.
BothFieldsPresent(s) ==
    /\ s # NoAnswer
    /\ s.error = NoneV
    /\ s.data.t = "dict"
    /\ {"dailyRoom", "dailyToken"} \subseteq DOMAIN s.data.items

BothFieldsNonEmpty(s) ==
    /\ BothFieldsPresent(s)
    /\ s.data.items["dailyRoom"].s # ""
    /\ s.data.items["dailyToken"].s # ""

SessionUrl(s) ==
    Return(Str(s.data.items["dailyRoom"].s \o "?t=" \o s.data.items["dailyToken"].s))

HealthThenStart(i) ==
    /\ Len(calls[i]) = 2
    /\ calls[i][1].op = "agent"
    /\ calls[i][2].op = "start_agent"

----------------------------------------------------------------------------
(* Properties.                                                             *)

\* C1: the start-agent call is issued only after the same invocation's health
\* check has answered with no error and readiness true; when the health check
\* answers with an error, no data, or readiness false or absent, start_agent
\* fails and the start-agent call is never issued.
StartOnlyAfterReadyHealth ==
    \A i \in DOMAIN inv :
        /\ Issued(i, "start_agent") =>
               /\ calls[i][1].op = "agent"
               /\ HealthyAnswer(inv[i].health)
        /\ UnhealthyAnswer(inv[i].health) =>
               /\ Done(i)
               /\ inv[i].result.kind = "raise"
               /\ ~Issued(i, "start_agent")

StartIssuedAfterReadyHealth ==
    \E i \in DOMAIN inv :
        Issued(i, "start_agent") /\ HealthyAnswer(inv[i].health)

\* C2 as stated: every completed invocation has performed exactly two remote
\* calls, one health check followed by one start-agent call.
ExactlyTwoRemoteCalls ==
    \A i \in DOMAIN inv : Done(i) => HealthThenStart(i)

\* C2 as amended: an invocation performs at most one health check followed by at
\* most one start-agent call; none when the inputs fail validation, the health
\* check alone when it does not report a ready agent, and both otherwise.
AtMostTwoRemoteCalls ==
    \A i \in DOMAIN inv :
        Started(i) =>
            /\ Count(i, "agent") <= 1
            /\ Count(i, "start_agent") <= 1
            /\ Len(calls[i]) = Count(i, "agent") + Count(i, "start_agent")
            /\ Issued(i, "start_agent") => HealthThenStart(i)
            /\ Done(i) =>
                   Len(calls[i]) = IF ~InputsAccepted(inv[i].args) THEN 0
                                   ELSE IF UnhealthyAnswer(inv[i].health) THEN 1
                                   ELSE 2

EndedAfterHealthCheckAlone ==
    \E i \in DOMAIN inv :
        Done(i) /\ Len(calls[i]) = 1 /\ UnhealthyAnswer(inv[i].health)

EmptyRequiredInputsFailEarly ==
    /\ (ctor.called /\ (ctor.token = "" \/ ctor.org = "")) =>
           /\ ctor.result.kind = "raise"
           /\ ~constructed
           /\ \A i \in DOMAIN inv : calls[i] = <<>> /\ ~Started(i)
    /\ \A i \in DOMAIN inv :
           (Started(i) /\ ~RequiredGiven(inv[i].args)) =>
               /\ Done(i)
               /\ inv[i].result.kind = "raise"
               /\ calls[i] = <<>>

EmptyApiKeyRejected ==
    \E i \in DOMAIN inv :
        /\ Done(i)
        /\ inv[i].args.agent_name # ""
        /\ inv[i].args.api_key = ""
        /\ inv[i].result.kind = "raise"

\* C5 as stated: with valid inputs, a ready health check, use_daily true and a
\* start result in which room r and token t are both present, start_agent returns
\* r followed by "?t=" followed by t; and it returns a value only in that case.
UrlWheneverFieldsPresent ==
    \A i \in DOMAIN inv :
        Done(i) =>
            LET ok == /\ InputsValid(inv[i].args)
                      /\ HealthyAnswer(inv[i].health)
                      /\ inv[i].args.use_daily
                      /\ BothFieldsPresent(inv[i].start)
            IN /\ ok => inv[i].result = SessionUrl(inv[i].start)
               /\ inv[i].result.kind = "return" => ok

\* C5 as amended: with inputs that pass validation, a ready health check with no
\* error, use_daily true and a start answer with no error in which room r and
\* token t are both present and non-empty, start_agent returns r followed by
\* "?t=" followed by t; and it returns a value only in that case.
UrlIffFieldsNonEmpty ==
    \A i \in DOMAIN inv :
        Done(i) =>
            LET ok == /\ InputsAccepted(inv[i].args)
                      /\ HealthyAnswer(inv[i].health)
                      /\ inv[i].args.use_daily
                      /\ BothFieldsNonEmpty(inv[i].start)
            IN /\ ok => inv[i].result = SessionUrl(inv[i].start)
               /\ inv[i].result.kind = "return" => ok

UrlReturned ==
    \E i \in DOMAIN inv :
        /\ Done(i)
        /\ inv[i].result = Return(Str("https://x.example/room?t=abc"))

\* C6: with use_daily false start_agent never returns a URL; when the health
\* check reports ready and the start request answers without error, it fails
\* with 'Start request succeeded but returned no data' after both remote calls.
NoUrlWithoutDaily ==
    \A i \in DOMAIN inv :
        (Done(i) /\ ~inv[i].args.use_daily) =>
            /\ inv[i].result.kind = "raise"
            /\ ( /\ HealthyAnswer(inv[i].health)
                 /\ inv[i].start # NoAnswer
                 /\ inv[i].start.error = NoneV )
               => /\ inv[i].result.msg = "Start request succeeded but returned no data"
                  /\ HealthThenStart(i)

RoomGrantedWithoutDaily ==
    \E i \in DOMAIN inv :
        /\ Done(i)
        /\ ~inv[i].args.use_daily
        /\ BothFieldsNonEmpty(inv[i].start)

\* C7: when the start-agent call answers with an error, start_agent fails with
\* 'Error starting agent: ' followed by that error, the health check having been
\* called exactly once and the start-agent call exactly once.
StartErrorWrappedOnce ==
    \A i \in DOMAIN inv :
        (Done(i) /\ inv[i].start # NoAnswer /\ inv[i].start.error # NoneV) =>
            /\ inv[i].result.kind = "raise"
            /\ inv[i].result.msg = "Error starting agent: " \o inv[i].start.error.s
            /\ Count(i, "agent") = 1
            /\ Count(i, "start_agent") = 1
            /\ HealthThenStart(i)

StartAnsweredWithError ==
    \E i \in DOMAIN inv :
        Done(i) /\ inv[i].start # NoAnswer /\ inv[i].start.error = Str("E500")

\* C8: start_agent hands its outcome back as a (link, error) pair, a failure
\* being returned as a value with link None and an error dict.
ReturnsLinkErrorPair ==
    \A i \in DOMAIN inv :
        Done(i) =>
            /\ inv[i].result.kind = "return"
            /\ inv[i].result.value.t = "tuple"

\* C9: across any sequence of start_agent calls on one helper the stored token
\* and org stay those given at construction, every health check carries that
\* org, and a call with the arguments and collaborator answers of the first
\* completed call has its outcome, whatever happened in between.
CallsAreIndependent ==
    /\ constructed => (token = ctor.token /\ org = ctor.org)
    /\ \A i \in DOMAIN inv :
           /\ Issued(i, "agent") => calls[i][1].org = ctor.org
           /\ ( /\ Done(i)
                /\ memo.n > 0
                /\ memo.args = inv[i].args
                /\ memo.health = inv[i].health
                /\ memo.start = inv[i].start )
              => inv[i].result = memo.result

SameCallRepeated ==
    \E i \in DOMAIN inv :
        /\ Done(i)
        /\ memo.n = 1
        /\ inv[i].n = 3
        /\ memo.args = inv[i].args
        /\ memo.health = inv[i].health
        /\ memo.start = inv[i].start
        /\ inv[i].result.kind = "return"

\* C10: with two invocations interleaved on one helper, each issues its start
\* request, for its own agent, only after its own health check for its own agent
\* reported ready, each health check carries the stored org, and each outcome is
\* the one the invocation produces when run alone with the same answers.
InterleavedCallsKeepApart ==
    \A i \in DOMAIN inv :
        /\ Issued(i, "agent") =>
               calls[i][1] = [op |-> "agent",
                              agent_name |-> inv[i].args.agent_name,
                              org |-> ctor.org]
        /\ Issued(i, "start_agent") =>
               /\ HealthThenStart(i)
               /\ HealthyAnswer(inv[i].health)
               /\ calls[i][2].agent_name = inv[i].args.agent_name
               /\ calls[i][2].api_key = inv[i].args.api_key
               /\ calls[i][2].use_daily = inv[i].args.use_daily
        /\ Done(i) =>
               inv[i].result = RunAlone(inv[i].args, inv[i].health, inv[i].start)

TwoInFlight ==
    \E i, j \in DOMAIN inv :
        /\ inv[i].pc = "await_start"
        /\ inv[j].pc = "await_health"
        /\ inv[i].args.agent_name # inv[j].args.agent_name

====
